---- MODULE Spec2Model ----
(***************************************************************************)
(* Model of the incremental indexing pipeline of sal.                      *)
(*                                                                         *)
(* Two variants of ensure_indexed are modelled side by side:               *)
(*   "pkg"    : sal/core.py  (cards + sqlite FTS table docs, flat glob)    *)
(*   "script" : sal.py       (cards with _mtime staleness, recursive glob) *)
(* The workspace (files, their modification times), the card cache         *)
(* (.sal/index/<name>.json) and the docs table are the state.  One         *)
(* ensure_indexed pass is one action; the answer of the metadata           *)
(* collaborator for each document (usable JSON or not) is its input.       *)
(***************************************************************************)
EXTENDS Integers, Sequences, FiniteSets, TLC

VARIABLES
    variant,    \* which implementation runs in this workspace
    fs,         \* path -> modification time, 0 when the file does not exist
    cardFile,   \* card file name -> content of .sal/index/<name>.json
    docs,       \* committed rows of the FTS table docs, in insertion order
    last,       \* observation of the most recent ensure_indexed pass, NoPass
                \* once the workspace has changed since
    prev,       \* the pass before it, when nothing changed in between
    base,       \* cache and table at the start of the current quiet run of passes
    chainFailed, \* some pass since base had a failing synthesis
    wsFiles,    \* tool serving: path -> what the file holds (serving workspace)
    store,      \* tool serving: state of .sal/search.db
    CARDS,      \* tool serving: core.CARDS, the in-memory card list
    call,       \* the most recent tool call
    result,     \* what that call returned or raised
    conns,      \* connections to search.db opened by tool calls and still open
    renderer,   \* sal.py main: the MathRenderer of the current response
    messages,   \* sal.py main: the message history
    pc          \* sal.py main: where the conversation loop stands

ivars == <<variant, fs, cardFile, docs, last, prev, base, chainFailed>>

tvars == <<wsFiles, store, CARDS, call, result, conns>>

cvars == <<renderer, messages, pc>>

vars == <<ivars, tvars, cvars>>

----------------------------------------------------------------------------
(* Bounds *)

MaxTime == 2

MaxOpen == 1

----------------------------------------------------------------------------
(* Paths.  A path is the sequence of its components below the located root *)
(* (WS for sal/core.py, WS/resources for sal.py).                          *)

AllPaths == { <<"a", "x.md">>, <<"x.md">>, <<"y.md">> }

\* pathlib's Path.name: the last component
Name(p) == p[Len(p)]

Names == { Name(p) : p \in AllPaths }

\* order of the component strings, as Python compares them
CompOrd(s) == CASE s = "a" -> 1 [] s = "x.md" -> 2 [] s = "y.md" -> 3

\* Path.__lt__: lexicographic on the components
RECURSIVE PathLess(_, _)
PathLess(p, q) ==
    IF p = <<>> THEN q # <<>>
    ELSE IF q = <<>> THEN FALSE
    ELSE IF CompOrd(Head(p)) # CompOrd(Head(q))
         THEN CompOrd(Head(p)) < CompOrd(Head(q))
         ELSE PathLess(Tail(p), Tail(q))

\* sorted(...)
RECURSIVE SortPaths(_)
SortPaths(S) ==
    IF S = {} THEN <<>>
    ELSE LET m == CHOOSE x \in S : \A y \in S \ {x} : PathLess(x, y)
         IN  <<m>> \o SortPaths(S \ {m})

\* sal/core.py _resources: WS.glob("*<ext>"), files directly under the root
ResourcesPkg(fsv) == SortPaths({ p \in AllPaths : fsv[p] > 0 /\ Len(p) = 1 })

\* sal.py ensure_indexed: resources_dir.rglob("*<ext>"), every depth
ResourcesScript(fsv) == SortPaths({ p \in AllPaths : fsv[p] > 0 })

Located(v, fsv) == IF v = "pkg" THEN ResourcesPkg(fsv) ELSE ResourcesScript(fsv)

Range(s) == { s[i] : i \in 1..Len(s) }

----------------------------------------------------------------------------
(* Files and cards *)

\* _read_file: the text of p as of its current modification time
ReadFile(fsv, p) == [of |-> p, ver |-> fsv[p]]

NoKey == -1

NoFile  == [kind |-> "none"]
Garbage == [kind |-> "garbage"]

\* a card as json.loads gives it back: path, _mtime (NoKey when the key is
\* absent) and the collaborator's metadata, identified by the text it read
Card(p, mt, text) == [kind |-> "card", path |-> p, mt |-> mt, data |-> text]

\* cached.get("_mtime", 0)
GetMtime(c) == IF c.mt = NoKey THEN 0 ELSE c.mt

\* sal.py _card_path / sal/core.py cp: keyed by the file NAME
CardPath(p) == Name(p)

\* _is_stale with >= for >: a card stamped with the current mtime is stale
IsStaleGe(fsv, cf, p) ==
    LET c == cf[CardPath(p)]
    IN  IF c.kind = "none" THEN TRUE
        ELSE IF c.kind = "garbage" THEN TRUE
        ELSE fsv[p] >= GetMtime(c)

\* sal.py _is_stale
IsStale(fsv, cf, p) ==
    LET c == cf[CardPath(p)]
    IN  IF c.kind = "none" THEN TRUE
        ELSE IF c.kind = "garbage" THEN TRUE
        ELSE fsv[p] > GetMtime(c)

\* sal.py _index_one, when the collaborator's text decodes
IndexOneScript(fsv, p) == Card(p, fsv[p], ReadFile(fsv, p))

\* sal/core.py _index_one, when the collaborator's text decodes
IndexOnePkg(fsv, p) == Card(p, NoKey, ReadFile(fsv, p))

----------------------------------------------------------------------------
(* The docs table *)

\* SELECT 1 FROM docs WHERE path=?
Contains(rows, p) == \E i \in 1..Len(rows) : rows[i].path = p

\* INSERT INTO docs(path, body) VALUES (?,?)
InsertRow(rows, p, body) == Append(rows, [path |-> p, body |-> body])

\* the insert without its SELECT guard
InsertAlways(rows, p, body) == InsertRow(rows, p, body)

\* the insert as an upsert: an existing row takes the new body
InsertOrReplace(rows, p, body) ==
    IF Contains(rows, p)
    THEN [i \in 1..Len(rows) |->
            IF rows[i].path = p THEN [path |-> p, body |-> body] ELSE rows[i]]
    ELSE InsertRow(rows, p, body)

\* sal/core.py ensure_indexed lines 69-72: insert only when no row has the path
InsertIfAbsent(rows, p, body) ==
    IF Contains(rows, p) THEN rows ELSE InsertRow(rows, p, body)

----------------------------------------------------------------------------
(* One ensure_indexed pass.  The loop state st holds what the pass has     *)
(* written and collected so far:                                           *)
(*   cf     the card files                                                 *)
(*   rows   the docs table as the pass's connection sees it                *)
(*   cards  the list being returned, for[i] the document cards[i] is for   *)
(*   synth  the documents a synthesis request was issued for               *)
(*   failed the documents whose synthesis failed                           *)
(*   done   the documents whose loop body ran to its end                   *)
(*   raised an exception left the loop                                     *)

Appended(st, p, card) ==
    [st EXCEPT !.cards = Append(@, card), !.for = Append(@, p)]

\* sal/core.py ensure_indexed, the body of the for loop (lines 59-72);
\* ok: the collaborator's answer for p decodes as a JSON object
BodyPkg(fsv, st, p, ok) ==
    LET c == st.cf[CardPath(p)]
        withRow(s) == [s EXCEPT !.rows = InsertIfAbsent(@, p, ReadFile(fsv, p)),
                                !.done = @ \cup {p}]
    IN  IF c.kind = "none"
        THEN IF ok
             THEN LET card == IndexOnePkg(fsv, p)
                  IN  withRow(Appended(
                        [st EXCEPT !.cf[CardPath(p)] = card,
                                   !.synth = @ \cup {p}], p, card))
             ELSE \* json.loads in _index_one raises, nothing catches it
                  [st EXCEPT !.synth = @ \cup {p}, !.failed = @ \cup {p},
                             !.raised = TRUE]
        ELSE IF c.kind = "garbage"
             THEN \* json.loads(cp.read_text()) raises
                  [st EXCEPT !.raised = TRUE]
             ELSE withRow(Appended(st, p, c))

\* sal.py ensure_indexed, the body of the for loop (lines 216-228)
BodyScript(fsv, st, p, ok) ==
    IF IsStale(fsv, st.cf, p)
    THEN IF ok
         THEN LET card == IndexOneScript(fsv, p)
              IN  [Appended([st EXCEPT !.cf[CardPath(p)] = card,
                                       !.synth = @ \cup {p}], p, card)
                    EXCEPT !.done = @ \cup {p}]
         ELSE \* except Exception: print failed, continue
              [st EXCEPT !.synth = @ \cup {p}, !.failed = @ \cup {p},
                         !.done = @ \cup {p}]
    ELSE [Appended(st, p, st.cf[CardPath(p)]) EXCEPT !.done = @ \cup {p}]

Body(v, fsv, st, p, ok) ==
    IF v = "pkg" THEN BodyPkg(fsv, st, p, ok) ELSE BodyScript(fsv, st, p, ok)

\* for f in files: ...   (an exception ends the loop)
RECURSIVE Loop(_, _, _, _, _)
Loop(v, fsv, st, files, llm) ==
    IF files = <<>> \/ st.raised THEN st
    ELSE Loop(v, fsv, Body(v, fsv, st, Head(files), llm[Head(files)]),
              Tail(files), llm)

\* ensure_indexed from the persisted state (cf, rows): the final loop state
RunPass(v, fsv, cf, rows, llm) ==
    Loop(v, fsv,
         [cf |-> cf, rows |-> rows, cards |-> <<>>, for |-> <<>>,
          synth |-> {}, failed |-> {}, done |-> {}, raised |-> FALSE],
         Located(v, fsv), llm)

\* db.commit() at line 73 is reached only when the loop ends normally; a
\* connection dropped with an open transaction rolls it back
Committed(rows, r) == IF r.raised THEN rows ELSE r.rows

----------------------------------------------------------------------------
(* The state machine *)

NoPass == [outcome |-> "none"]

Variants == {"pkg", "script"}

NoCall == [op |-> "none"]

\* before any tool is served: no serving workspace, empty core.CARDS (line 20)
ToolsIdle ==
    /\ wsFiles = <<>>
    /\ store = "nodir"
    /\ CARDS = <<>>
    /\ call = NoCall
    /\ result = NoCall
    /\ conns = 0

\* MathRenderer.__init__
NewRenderer == [pending |-> <<>>, math |-> <<>>, in_math |-> FALSE, display |-> FALSE]

\* before main runs: no renderer in use, no message, no loop
ChatIdle ==
    /\ renderer = NewRenderer
    /\ messages = <<>>
    /\ pc = "idle"

Init ==
    /\ ToolsIdle
    /\ ChatIdle
    /\ variant \in Variants
    /\ fs = [p \in AllPaths |-> 0]
    /\ cardFile = [n \in Names |-> NoFile]
    /\ docs = <<>>
    /\ last = NoPass
    /\ prev = NoPass
    /\ base = [cf |-> cardFile, docs |-> docs]
    /\ chainFailed = FALSE

\* what the observations become when the workspace changes between passes
Forget ==
    /\ last' = NoPass
    /\ prev' = NoPass
    /\ base' = [cf |-> cardFile', docs |-> docs']
    /\ chainFailed' = FALSE

\* a file is created or modified: its modification time advances
WriteFile(p) ==
    /\ fs[p] < MaxTime
    /\ fs' = [fs EXCEPT ![p] = @ + 1]
    /\ UNCHANGED <<variant, cardFile, docs>>
    /\ UNCHANGED <<tvars, cvars>>
    /\ Forget

\* a card file is left unparseable (a torn write, an edit by hand)
CorruptCard(n) ==
    /\ cardFile[n].kind # "garbage"
    /\ cardFile' = [cardFile EXCEPT ![n] = Garbage]
    /\ UNCHANGED <<variant, fs, docs>>
    /\ UNCHANGED <<tvars, cvars>>
    /\ Forget

\* one call of ensure_indexed(client)
EnsureIndexed(llm) ==
    LET r == RunPass(variant, fs, cardFile, docs, llm)
    IN  /\ cardFile' = r.cf
        /\ docs' = Committed(docs, r)
        /\ last' = [outcome |-> IF r.raised THEN "raised" ELSE "returned",
                    cards |-> r.cards, for |-> r.for,
                    synth |-> r.synth, failed |-> r.failed, done |-> r.done,
                    startCards |-> cardFile, startDocs |-> docs]
        /\ prev' = IF last = NoPass THEN NoPass
                   ELSE [outcome |-> last.outcome, cards |-> last.cards,
                         failed |-> last.failed]
        /\ chainFailed' = (chainFailed \/ r.raised \/ r.failed # {})
        /\ UNCHANGED <<variant, fs, base>>
        /\ UNCHANGED <<tvars, cvars>>

Next ==
    \/ \E p \in AllPaths : WriteFile(p)
    \/ \E n \in Names : CorruptCard(n)
    \/ \E llm \in [AllPaths -> BOOLEAN] : EnsureIndexed(llm)

Spec == Init /\ [][Next]_vars

----------------------------------------------------------------------------
(* Properties *)

LocatedNow == Range(Located(variant, fs))

Returned == last.outcome = "returned"

\* C1: two ensure_indexed passes in a row with no file change between them
\* (the first without a failing synthesis) return the same sequence of cards,
\* and the second issues no synthesis request.
C1_IdempotentIndexing ==
    (prev.outcome = "returned" /\ prev.failed = {} /\ Returned)
        => (last.cards = prev.cards /\ last.synth = {})

CardVersion(c) == c.data.ver

\* C3: (package variant) a document whose modification time has advanced
\* since its card was cached is re-synthesized by the next pass and its card
\* overwritten; a document whose modification time has not advanced is
\* loaded from the cache.
C3_PkgRefreshesStaleCards ==
    (variant = "pkg" /\ Returned) =>
      \A p \in LocatedNow :
        LET c == last.startCards[CardPath(p)]
        IN  c.kind = "card" =>
              /\ (fs[p] > CardVersion(c)) <=> (p \in last.synth)
              /\ CardVersion(cardFile[CardPath(p)]) = fs[p]

\* C4: when the synthesis of a document fails during a pass, the pass still
\* returns normally and every other located document has its card returned.
C4_FailureIsolation ==
    (last.outcome # "none" /\ last.failed # {}) =>
      /\ Returned
      /\ \A p \in LocatedNow \ last.failed : p \in Range(last.for)

RowsFor(rows, p) == { i \in 1..Len(rows) : rows[i].path = p }

\* C5: the docs table never holds two rows with the same path, and after
\* every pass of the package variant that completes it holds exactly one row
\* for every located document.
C5_IndexUnique ==
    /\ \A p \in AllPaths : Cardinality(RowsFor(docs, p)) <= 1
    /\ (variant = "pkg" /\ Returned) =>
          \A p \in LocatedNow : Cardinality(RowsFor(docs, p)) = 1

\* a pass completed after an earlier one failed midway, with a file that was
\* modified after its row was inserted
C5_Witness ==
    /\ variant = "pkg" /\ Returned /\ chainFailed
    /\ Len(docs) >= 2
    /\ \E i \in 1..Len(docs) : docs[i].body.ver < fs[docs[i].path]

\* C6: once a row exists for a path, no step removes it or changes its body,
\* whatever has happened to the source file.
C6_NeverUpdates ==
    [][\A i \in 1..Len(docs) :
          /\ RowsFor(docs', docs[i].path) # {}
          /\ \A j \in RowsFor(docs', docs[i].path) : docs'[j].body = docs[i].body]_vars

\* a pass has completed while a row's body is older than its source file
C6_Witness ==
    /\ variant = "pkg" /\ Returned
    /\ \E i \in 1..Len(docs) :
          /\ docs[i].path \in last.done
          /\ docs[i].body # ReadFile(fs, docs[i].path)

\* the pass that never fails, from the state the quiet run of passes began in
IdealPass == RunPass(variant, fs, base.cf, base.docs, [p \in AllPaths |-> TRUE])

\* C7: a pass that completes after an earlier pass failed, with no file change
\* in between, synthesizes exactly the documents that had no cached card
\* (none that parses) at its start, inserts rows only for paths not yet present, and ends in the
\* cache and index state of a single pass that never failed.
C7_Recovery ==
    (Returned /\ last.failed = {} /\ chainFailed) =>
      /\ last.synth = { p \in LocatedNow : last.startCards[CardPath(p)].kind # "card" }
      /\ \A i \in 1..Len(docs) :
            i > Len(last.startDocs) => ~Contains(last.startDocs, docs[i].path)
      /\ cardFile = IdealPass.cf
      /\ docs = Committed(base.docs, IdealPass)

\* C8: after a pass failed at some document, the card and the index row of
\* every document processed before it are persisted.
C8_WriteIndependence ==
    last.outcome = "raised" =>
      \A p \in last.done :
        /\ cardFile[CardPath(p)].kind = "card"
        /\ Contains(docs, p)

\* C9: the returned sequence holds, in locator order, one card per located
\* document that has one, each with that document's path, and the cached
\* card of a document is never another document's.
C9_OneCardPerDocument ==
    Returned =>
      /\ \A i \in 1..Len(last.cards) : last.cards[i].path = last.for[i]
      /\ \A i, j \in 1..Len(last.for) : i < j => PathLess(last.for[i], last.for[j])
      /\ \A p \in LocatedNow :
            cardFile[CardPath(p)].kind = "card" => cardFile[CardPath(p)].path = p

\* C10: a card file that exists but cannot be parsed is treated as stale: the
\* pass does not raise because of it, the document is re-synthesized and the
\* card file overwritten.
C10_FailOpen ==
    (last.outcome # "none" /\ last.failed = {}) =>
      \A p \in LocatedNow :
        last.startCards[CardPath(p)].kind = "garbage" =>
          /\ Returned
          /\ p \in last.synth
          /\ cardFile[CardPath(p)].kind = "card"

----------------------------------------------------------------------------
(* Tool serving (sal/mcp.py List, Read, Search; sal.py read_document,       *)
(* search).  A text is a sequence of symbols: a symbol is a word or the     *)
(* line break "\n"; a string argument (a topic) is a sequence of letters.   *)

NL == "\n"

\* str.lower(), symbol by symbol
Lower(ch) ==
    CASE ch = "A" -> "a" [] ch = "B" -> "b" [] ch = "Local" -> "local"
      [] ch = "Other" -> "other" [] OTHER -> ch

LowerStr(t) == [i \in 1..Len(t) |-> Lower(t[i])]

\* Python's  needle in hay
IsSubstr(needle, hay) ==
    \E k \in 0..(Len(hay) - Len(needle)) :
        \A i \in 1..Len(needle) : hay[k + i] = needle[i]

\* the filter comparing without lower()
TopicMatchesCased(c, topic) ==
    \E i \in 1..Len(c.topics) : IsSubstr(topic, c.topics[i])

\* sal/mcp.py List, its filter (line 17)
TopicMatches(c, topic) ==
    \E i \in 1..Len(c.topics) : IsSubstr(LowerStr(topic), LowerStr(c.topics[i]))

\* sal/mcp.py List; hasTopic: topic is not None
ListTool(cards, hasTopic, topic) ==
    LET Keep(c) == TopicMatches(c, topic)
    IN  IF hasTopic /\ topic # <<>>        \* if topic:
        THEN [documents |-> SelectSeq(cards, Keep)]
        ELSE [documents |-> cards]

----------------------------------------------------------------------------
(* Truncation *)

ReadCap  == 8000
SynthCap == 15000

ReadMarker  == <<NL, "[truncated - page]">>
SynthMarker == <<NL, "[truncated]">>

\* content[:n]
Prefix(content, n) == SubSeq(content, 1, IF Len(content) < n THEN Len(content) ELSE n)

\* the Read cap applied from the cap's length on (>= for >)
ReadTruncateGe(content) ==
    IF Len(content) >= ReadCap THEN Prefix(content, ReadCap) \o ReadMarker
    ELSE content

\* sal/mcp.py Read lines 38-39, sal.py read_document lines 258-259
ReadTruncate(content) ==
    IF Len(content) > ReadCap THEN Prefix(content, ReadCap) \o ReadMarker
    ELSE content

\* sal.py _index_one lines 178-180: the text put into the request
SynthInputScript(content) ==
    IF Len(content) > SynthCap THEN Prefix(content, SynthCap) \o SynthMarker
    ELSE content

\* sal/core.py _index_one line 42: the text put into the request
SynthInputPkg(content) == Prefix(content, SynthCap)

SynthInput(v, content) ==
    IF v = "pkg" THEN SynthInputPkg(content) ELSE SynthInputScript(content)

----------------------------------------------------------------------------
(* Files and the index store as the tools see them *)

Absent == [kind |-> "absent"]
TextFile(t) == [kind |-> "text", text |-> t]
PdfFile(pages) == [kind |-> "pdf", pages |-> pages]

\* "\n\n".join(pages)
RECURSIVE JoinPages(_)
JoinPages(pages) ==
    IF pages = <<>> THEN <<>>
    ELSE IF Len(pages) = 1 THEN pages[1]
    ELSE pages[1] \o <<NL, NL>> \o JoinPages(Tail(pages))

\* _read_file on an existing file (fitz available)
FileText(f) == IF f.kind = "pdf" THEN JoinPages(f.pages) ELSE f.text

\* path.suffix.lower() == ".pdf"
IsPdfPath(path) == path = "paper.pdf"

Raised(exc) == [raised |-> exc]

IsRaise(r) == "raised" \in DOMAIN r
IsError(r) == "error" \in DOMAIN r
IsContent(r) == DOMAIN r = {"path", "content"}

\* sal/core.py _open_db: sqlite3.connect fails when .sal/ is missing
OpenDbFails(st) == st = "nodir"

\* a connect that leaves the state directory behind when it fails
OpenDbStoreMkdir(st) == "ready"

\* the store after _open_db: search.db and the docs table are created when
\* only they are missing; a failed connect creates nothing
OpenDbStore(st) == IF st = "nofile" THEN "ready" ELSE st

\* SELECT body FROM docs WHERE path=?  (fetchone)
RowBody(rows, path) ==
    LET i == CHOOSE i \in 1..Len(rows) : rows[i].path = path
    IN  rows[i].body

\* Read's content choice with the order reversed: the file first
RowOrFileFresh(rows, path, f) == FileText(f)

\* sal/mcp.py Read line 37: row[0] if row else core._read_file(f)
RowOrFile(rows, path, f) ==
    IF Contains(rows, path) THEN RowBody(rows, path) ELSE FileText(f)

\* sal/mcp.py Read: [res |-> the result, store |-> the store afterwards,
\* unclosed |-> connections opened and not closed by db.close()]
ReadPkg(fl, st, rows, path, hasPage, page) ==
    LET f == fl[path]
    IN  IF f.kind = "absent"
        THEN [res |-> [error |-> "Not found", path |-> path], store |-> st, unclosed |-> 0]
        ELSE IF hasPage /\ IsPdfPath(path)
        THEN IF ~(0 <= page /\ page < Len(f.pages))
             THEN [res |-> [error |-> "out of range", page |-> page], store |-> st, unclosed |-> 0]
             ELSE [res |-> [path |-> path,
                            content |-> ReadTruncate(f.pages[page + 1])],
                   store |-> st, unclosed |-> 0]
        ELSE IF OpenDbFails(st)
        THEN [res |-> Raised("OperationalError"), store |-> OpenDbStore(st), unclosed |-> 0]
        ELSE [res |-> [path |-> path,
                       content |-> ReadTruncate(RowOrFile(rows, path, f))],
              store |-> OpenDbStore(st), unclosed |-> 0]

\* sal.py read_document
ReadScript(fl, path, hasPage, page) ==
    LET f == fl[path]
    IN  IF f.kind = "absent"
        THEN [error |-> "Not found", path |-> path]
        ELSE IF hasPage /\ IsPdfPath(path)
        THEN IF ~(0 <= page /\ page < Len(f.pages))
             THEN [error |-> "out of range", page |-> page, pages |-> Len(f.pages)]
             ELSE [path |-> path, content |-> ReadTruncate(f.pages[page + 1])]
        ELSE [path |-> path, content |-> ReadTruncate(FileText(f))]

----------------------------------------------------------------------------
(* Search *)

\* a query string, by what the FTS5 parser makes of it: bare words, one
\* quoted phrase, or a string it rejects (*, "", a dangling operator)
WordsQuery(ws) == [kind |-> "words", words |-> ws]
PhraseQuery(ws) == [kind |-> "phrase", words |-> ws]
BadQuery == [kind |-> "bad", words |-> <<>>]

\* the unicode61 tokenizer: case-folded words, line breaks dropped
Tokens(body) ==
    LET IsWord(sym) == sym # NL
    IN  SelectSeq(LowerStr(body), IsWord)

\* a match on any one of the terms
MatchesFtsAny(body, q) ==
    \E i \in 1..Len(q.words) : Lower(q.words[i]) \in Range(Tokens(body))

\* docs MATCH ?: bare words are an implicit AND of terms, a quoted string is
\* a phrase of adjacent tokens
MatchesFts(body, q) ==
    IF q.kind = "phrase"
    THEN IsSubstr(LowerStr(q.words), Tokens(body))
    ELSE \A i \in 1..Len(q.words) : Lower(q.words[i]) \in Range(Tokens(body))

\* the query without its LIMIT
LimitNone(rows, n) == rows

\* LIMIT ?: a negative limit is no limit
Limit(rows, n) == IF n < 0 THEN rows ELSE Prefix(rows, n)

\* snippet(docs, 1, ...): the bodies here are shorter than the 24-token
\* window, so the snippet spans the whole body
Snippet(body) == body

\* sal/mcp.py Search; the except branch returns before db.close() (line 55).
\* ORDER BY rank is taken as table order: no property
\* below depends on which of the matching rows come first.
SearchPkg(st, rows, q, max) ==
    IF OpenDbFails(st)
    THEN [res |-> Raised("OperationalError"), store |-> OpenDbStore(st),
          unclosed |-> 0]
    ELSE IF q.kind = "bad"
    THEN [res |-> [query |-> q, results |-> <<>>,
                   error |-> "invalid query syntax"],
          store |-> OpenDbStore(st), unclosed |-> 1]
    ELSE LET Hit(r) == MatchesFts(r.body, q)
             found == Limit(SelectSeq(rows, Hit), max)
         IN  [res |-> [query |-> q,
                       results |-> [i \in 1..Len(found) |->
                                      [path |-> found[i].path,
                                       snippet |-> Snippet(found[i].body)]]],
              store |-> OpenDbStore(st), unclosed |-> 0]

\* text.splitlines()
RECURSIVE SplitFrom(_, _)
SplitFrom(t, cur) ==
    IF t = <<>> THEN (IF cur = <<>> THEN <<>> ELSE <<cur>>)
    ELSE IF Head(t) = NL THEN <<cur>> \o SplitFrom(Tail(t), <<>>)
    ELSE SplitFrom(Tail(t), Append(cur, Head(t)))

SplitLines(t) == SplitFrom(t, <<>>)

\* the query string as sal.py search sees it: only bare words can occur in
\* a line of these documents
LineMatches(q, line) == q.kind = "words" /\ IsSubstr(LowerStr(q.words), LowerStr(line))

\* sal.py search, the loop over the lines of one file; count = Len(acc)
RECURSIVE ScanLines(_, _, _, _, _, _)
ScanLines(path, lines, i, q, max, acc) ==
    IF i > Len(lines) THEN acc
    ELSE IF LineMatches(q, lines[i])
    THEN LET acc2 == Append(acc, [path |-> path, line |-> i, text |-> lines[i]])
         IN  IF Len(acc2) >= max THEN acc2
             ELSE ScanLines(path, lines, i + 1, q, max, acc2)
    ELSE ScanLines(path, lines, i + 1, q, max, acc)

\* RESOURCE_EXTS order: .pdf, .md, .txt
ScanOrder == <<"paper.pdf", "notes.md", "doc.txt">>

\* sal.py search, the loop over the files
RECURSIVE ScanFiles(_, _, _, _, _)
ScanFiles(fl, order, q, max, acc) ==
    IF order = <<>> \/ Len(acc) >= max THEN acc
    ELSE LET path == Head(order)
             f == fl[path]
         IN  IF f.kind = "absent"
             THEN ScanFiles(fl, Tail(order), q, max, acc)
             ELSE ScanFiles(fl, Tail(order), q, max,
                            ScanLines(path, SplitLines(FileText(f)), 1, q, max, acc))

\* sal.py search
SearchScript(fl, q, max) ==
    [query |-> q, results |-> ScanFiles(fl, ScanOrder, q, max, <<>>)]

\* sal.py list_documents: the sorted paths of the files present
DocOrder == <<"doc.txt", "notes.md", "paper.pdf">>

ListScript(fl) ==
    LET Present(path) == fl[path].kind # "absent"
    IN  [documents |-> SelectSeq(DocOrder, Present)]

----------------------------------------------------------------------------
(* The tools as a state machine: a workspace that indexing has left in some *)
(* state, and List, Read and Search called on it in any order.              *)

MaxPages == 2
MaxResults == 2

T1 == <<"local", "volatility", NL, "other">>
T2 == <<"volatility", "other", "Local">>
T3 == <<"other">>

ToolPaths == {"doc.txt", "notes.md", "paper.pdf"}

PageText(i) == IF i % 2 = 1 THEN T1 ELSE T3

PdfPages == { [i \in 1..n |-> PageText(i)] : n \in 1..MaxPages }

FileStates(path) ==
    CASE path = "doc.txt"  -> {Absent, TextFile(T1), TextFile(T2)}
      [] path = "notes.md" -> {Absent, TextFile(T2)}
      [] OTHER             -> {Absent} \cup { PdfFile(pg) : pg \in PdfPages }

\* what the docs table may hold for a path: no row, or the body indexed
\* when the row was inserted (the file may have changed or gone since)
RowStates(path) ==
    CASE path = "doc.txt"  -> {<<>>, <<[path |-> path, body |-> T3]>>}
      [] path = "notes.md" -> {<<>>, <<[path |-> path, body |-> T2]>>}
      [] OTHER             -> {<<>>, <<[path |-> path, body |-> T1]>>}

Tables ==
    { a \o b \o c : a \in RowStates("doc.txt"), b \in RowStates("notes.md"),
                    c \in RowStates("paper.pdf") }

CardOf(path, topics) == [path |-> path, topics |-> topics]

CardLists ==
    { <<>>,
      << CardOf("doc.txt", << <<"A", "b">>, <<"b">> >>),
         CardOf("notes.md", <<>>),
         CardOf("paper.pdf", << <<"b", "a">> >>) >> }

Topics == { <<>>, <<"a">>, <<"B">>, <<"a", "b">>, <<"a", "a">> }

Queries ==
    { WordsQuery(<<"local", "volatility">>), PhraseQuery(<<"local", "volatility">>),
      WordsQuery(<<"Other">>), WordsQuery(<<"zzz", "other">>), BadQuery }

ListCalls ==
    {[op |-> "List", hasTopic |-> FALSE, topic |-> <<>>]}
        \cup { [op |-> "List", hasTopic |-> TRUE, topic |-> t] : t \in Topics }

ReadCalls ==
    { [op |-> "Read", path |-> path, hasPage |-> FALSE, page |-> 0] : path \in ToolPaths }
        \cup { [op |-> "Read", path |-> path, hasPage |-> TRUE, page |-> 0] :
                   path \in ToolPaths \ {"paper.pdf"} }
        \cup { [op |-> "Read", path |-> "paper.pdf", hasPage |-> TRUE, page |-> n] :
                   n \in -1..MaxPages }

SearchCalls ==
    { [op |-> "Search", query |-> q, max |-> m] : q \in Queries, m \in -1..MaxResults }

\* the indexing variables stand still while tools are served
IndexingIdle ==
    /\ fs = [p \in AllPaths |-> 0]
    /\ cardFile = [n \in Names |-> NoFile]
    /\ last = NoPass
    /\ prev = NoPass
    /\ base = [cf |-> cardFile, docs |-> <<>>]
    /\ chainFailed = FALSE

InitTools ==
    /\ IndexingIdle
    /\ ChatIdle
    /\ conns = 0
    /\ variant \in Variants
    /\ wsFiles \in { [path \in ToolPaths |-> g[path]] :
                       g \in [ToolPaths -> UNION { FileStates(path) : path \in ToolPaths }] }
    /\ \A path \in ToolPaths : wsFiles[path] \in FileStates(path)
    /\ IF variant = "pkg"
       THEN /\ store \in {"nodir", "nofile", "ready"}
            /\ docs \in Tables
            /\ store # "ready" => docs = <<>>
            /\ CARDS \in CardLists
       ELSE /\ store = "nodir"
            /\ docs = <<>>
            /\ CARDS = <<>>
    /\ call = NoCall
    /\ result = NoCall

\* a call returns with n connections it opened and did not close: whether
\* such a connection is closed when the call's frame is dropped or stays open
\* is up to the runtime's finalization; at most MaxOpen are counted
StillOpen(n) ==
    \E kept \in 0..n : conns + kept <= MaxOpen /\ conns' = conns + kept

\* List / list_documents
ListCall(c) ==
    /\ call' = c
    /\ result' = IF variant = "pkg" THEN ListTool(CARDS, c.hasTopic, c.topic)
                 ELSE ListScript(wsFiles)
    /\ UNCHANGED <<ivars, cvars, wsFiles, store, CARDS, conns>>

\* Read / read_document
ReadCall(c) ==
    /\ call' = c
    /\ IF variant = "pkg"
       THEN LET r == ReadPkg(wsFiles, store, docs, c.path, c.hasPage, c.page)
            IN  result' = r.res /\ store' = r.store /\ StillOpen(r.unclosed)
       ELSE /\ result' = ReadScript(wsFiles, c.path, c.hasPage, c.page)
            /\ store' = store
            /\ conns' = conns
    /\ UNCHANGED <<ivars, cvars, wsFiles, CARDS>>

\* Search / search
SearchCall(c) ==
    /\ call' = c
    /\ IF variant = "pkg"
       THEN LET r == SearchPkg(store, docs, c.query, c.max)
            IN  result' = r.res /\ store' = r.store /\ StillOpen(r.unclosed)
       ELSE /\ result' = SearchScript(wsFiles, c.query, c.max)
            /\ store' = store
            /\ conns' = conns
    /\ UNCHANGED <<ivars, cvars, wsFiles, CARDS>>

NextTools ==
    \/ \E c \in ListCalls : ListCall(c)
    \/ \E c \in ReadCalls : ReadCall(c)
    \/ \E c \in SearchCalls : SearchCall(c)

SpecTools == InitTools /\ [][NextTools]_vars

----------------------------------------------------------------------------
(* Properties of the tools *)

AllCalls == ListCalls \cup ReadCalls \cup SearchCalls

\* what a call returns in a given state of the workspace
ToolResult(v, fl, st, rows, cards, c) ==
    CASE c.op = "List" -> IF v = "pkg" THEN ListTool(cards, c.hasTopic, c.topic)
                          ELSE ListScript(fl)
      [] c.op = "Read" -> IF v = "pkg"
                          THEN ReadPkg(fl, st, rows, c.path, c.hasPage, c.page).res
                          ELSE ReadScript(fl, c.path, c.hasPage, c.page)
      [] OTHER         -> IF v = "pkg" THEN SearchPkg(st, rows, c.query, c.max).res
                          ELSE SearchScript(fl, c.query, c.max)

\* C11: no List, Read or Search call changes the cached cards, the card list
\* in memory, the rows of the index or the files, and whatever a call changes
\* (the store coming into being) changes the result of no call: every call
\* returns afterwards what it would have returned before.
C11_ToolsSideEffectFree ==
    [][ /\ cardFile' = cardFile
        /\ CARDS' = CARDS
        /\ docs' = docs
        /\ wsFiles' = wsFiles
        /\ store' # store =>
             \A c \in AllCalls :
                ToolResult(variant, wsFiles', store', docs', CARDS', c)
                    = ToolResult(variant, wsFiles, store, docs, CARDS, c)
      ]_vars

\* a Read that opened the store for the first time and was then repeated
C11_Witness ==
    /\ variant = "pkg"
    /\ call.op = "Read"
    /\ IsContent(result)
    /\ store = "ready"
    /\ docs = <<>>
    /\ CARDS # <<>>

\* a Read that takes the whole document: no page, or a path that is no PDF
WholeRead ==
    /\ call.op = "Read"
    /\ wsFiles[call.path].kind # "absent"
    /\ ~(call.hasPage /\ IsPdfPath(call.path))

\* C12: a Read of an existing file without a page (or of a non-PDF) returns
\* the body of the index row of that path whenever there is such a row, also
\* when the file says something else by now; what it returns when there is no
\* row is the text extracted from the file.
C12_ReadPrefersIndex ==
    WholeRead =>
        /\ Contains(docs, call.path) =>
              /\ IsContent(result)
              /\ result.content = RowBody(docs, call.path)
        /\ (~Contains(docs, call.path) /\ IsContent(result)) =>
              result.content = FileText(wsFiles[call.path])

\* the row and the file disagree, and Read returned the row
C12_Witness ==
    /\ WholeRead
    /\ Contains(docs, call.path)
    /\ RowBody(docs, call.path) # FileText(wsFiles[call.path])
    /\ IsContent(result)
    /\ result.content = RowBody(docs, call.path)

\* C13: Read never raises: in every state of the workspace it returns a
\* {path, content} or an {error} result, and an {error} result for a path
\* that does not exist.
C13_ReadNeverRaises ==
    call.op = "Read" =>
        /\ ~IsRaise(result)
        /\ IsContent(result) \/ IsError(result)
        /\ wsFiles[call.path].kind = "absent" => IsError(result)

HasResults(r) == "results" \in DOMAIN r

MalformedSearch ==
    /\ variant = "pkg"
    /\ call.op = "Search"
    /\ call.query.kind = "bad"

ErrorShape(r) ==
    /\ DOMAIN r = {"query", "results", "error"}
    /\ r.results = <<>>
    /\ r.error # ""

\* C14: for a query string the search backend rejects as malformed, Search
\* does not raise and returns {query, results: [], error: a non-empty string}.
C14_SearchErrorShape ==
    MalformedSearch => (~IsRaise(result) /\ ErrorShape(result))

\* where the store opens, a malformed query yields the error shape, and no
\* step of the tools changes the rows of the index
SearchErrorShapeWhenOpen ==
    (MalformedSearch /\ store # "nodir") => ErrorShape(result)

\* the rows that match the query of the call
Matching == LET Hit(r) == MatchesFts(r.body, call.query) IN SelectSeq(docs, Hit)

\* C15: for every query and every max_results >= 0, the results Search
\* returns are at most max_results many, however many rows (package) or
\* lines (standalone) match.
C15_MaxResultsBounds ==
    (call.op = "Search" /\ call.max >= 0 /\ HasResults(result)) =>
        Len(result.results) <= call.max

\* more rows match than max_results allows, and the result is cut
C15_Witness ==
    /\ variant = "pkg"
    /\ call.op = "Search"
    /\ call.query.kind # "bad"
    /\ HasResults(result)
    /\ call.max >= 1
    /\ Len(Matching) > call.max
    /\ Len(result.results) = call.max

Min(a, b) == IF a < b THEN a ELSE b

PathsOf(rs) == { rs[i].path : i \in 1..Len(rs) }

Distinct(rs) == \A i, j \in 1..Len(rs) : rs[i].path = rs[j].path => i = j

\* the body contains the words of the query next to each other, in order
ContainsPhrase(body, q) ==
    LET IsWord(sym) == sym # NL
        toks == SelectSeq([i \in 1..Len(body) |-> Lower(body[i])], IsWord)
        ws == [i \in 1..Len(q.words) |-> Lower(q.words[i])]
    IN  \E k \in 0..(Len(toks) - Len(ws)) : \A i \in 1..Len(ws) : toks[k + i] = ws[i]

\* the body contains every word of the query, anywhere
ContainsTerms(body, q) ==
    \A i \in 1..Len(q.words) :
        \E j \in 1..Len(body) : Lower(body[j]) = Lower(q.words[i])

\* the results are one per row that satisfies Hit, up to max_results, and
\* an empty results without error key when no row does
OnePerHit(Hit(_)) ==
    LET hits == SelectSeq(docs, Hit)
    IN  /\ Distinct(result.results)
        /\ PathsOf(result.results) \subseteq PathsOf(hits)
        /\ Len(result.results) =
              IF call.max < 0 THEN Len(hits) ELSE Min(call.max, Len(hits))
        /\ hits = <<>> => (result.results = <<>> /\ "error" \notin DOMAIN result)

WellFormedSearch ==
    /\ variant = "pkg"
    /\ call.op = "Search"
    /\ call.query.kind # "bad"
    /\ HasResults(result)

HasTopic(c, topic) ==
    \E i \in 1..Len(c.topics) :
        \E k \in 0..(Len(c.topics[i]) - Len(topic)) :
            \A j \in 1..Len(topic) : Lower(c.topics[i][k + j]) = Lower(topic[j])

Filtered(topic) == LET Keep(c) == HasTopic(c, topic) IN SelectSeq(CARDS, Keep)

ListServed == variant = "pkg" /\ call.op = "List"

\* C17 as stated: List(topic) returns exactly the cards with a topics entry
\* containing topic, for every topic given; List with no topic returns every
\* card.
C17_TopicFilter ==
    ListServed =>
        result.documents = IF call.hasTopic THEN Filtered(call.topic) ELSE CARDS

\* C17: for every non-empty topic, List(topic) returns exactly the cards
\* having at least one entry of topics that contains topic as a
\* case-insensitive substring, in their original order, and an empty list
\* when no card has one; List with no topic or with the empty string as
\* topic returns every card, unfiltered and in original order, cards without
\* topics included.
C17_NonEmptyTopicFilter ==
    ListServed =>
        result.documents = IF call.hasTopic /\ call.topic # <<>>
                           THEN Filtered(call.topic) ELSE CARDS

\* a topic in another letter case than the card's picks some cards, not all
C17_Witness ==
    /\ ListServed
    /\ call.hasTopic
    /\ call.topic = <<"B">>
    /\ result.documents # <<>>
    /\ result.documents # CARDS

\* a Read of a page of a PDF that exists
PageRead ==
    /\ call.op = "Read"
    /\ call.hasPage
    /\ IsPdfPath(call.path)
    /\ wsFiles[call.path].kind = "pdf"

\* C18: Read(path, page=N) on a PDF of P pages returns an error result that
\* names P for every N outside [0, P), and exactly the text of page N for
\* every N inside, in both variants.
C18_PageBounds ==
    PageRead =>
        LET pages == wsFiles[call.path].pages
        IN  IF 0 <= call.page /\ call.page < Len(pages)
            THEN IsContent(result) /\ result.content = pages[call.page + 1]
            ELSE /\ IsError(result)
                 /\ "pages" \in DOMAIN result
                 /\ result.pages = Len(pages)

----------------------------------------------------------------------------
(* Long documents: texts around the two caps, read and sent for synthesis *)

Slack == 3

Sym(i) == CASE i % 3 = 0 -> "x" [] i % 3 = 1 -> "y" [] OTHER -> "z"

LongText(n) == [i \in 1..n |-> Sym(i)]

LongTexts ==
    { LongText(cap + d) : cap \in {ReadCap, SynthCap}, d \in -Slack..Slack }

InitText ==
    /\ IndexingIdle
    /\ ChatIdle
    /\ conns = 0
    /\ variant \in Variants
    /\ CARDS = <<>>
    /\ call = NoCall
    /\ result = NoCall
    /\ store = IF variant = "pkg" THEN "ready" ELSE "nodir"
    /\ \E t \in LongTexts :
          \/ /\ wsFiles = [path \in ToolPaths |->
                             IF path = "doc.txt" THEN TextFile(t) ELSE Absent]
             /\ docs = <<>>
          \/ /\ wsFiles = [path \in ToolPaths |->
                             IF path = "paper.pdf" THEN PdfFile(<<t>>) ELSE Absent]
             /\ docs = <<>>
          \/ /\ variant = "pkg"
             /\ wsFiles = [path \in ToolPaths |->
                             IF path = "doc.txt" THEN TextFile(T3) ELSE Absent]
             /\ docs = <<[path |-> "doc.txt", body |-> t]>>

\* _index_one up to its request: the text sent for synthesis
Synthesize(path) ==
    /\ wsFiles[path].kind # "absent"
    /\ call' = [op |-> "Synthesize", path |-> path]
    /\ result' = [content |-> SynthInput(variant, FileText(wsFiles[path]))]
    /\ UNCHANGED <<ivars, cvars, wsFiles, store, CARDS, conns>>

NextText ==
    \/ \E c \in ReadCalls : ReadCall(c)
    \/ \E path \in ToolPaths : Synthesize(path)

SpecText == InitText /\ [][NextText]_vars

\* what Read has in hand before it cuts: the page, the row or the file
ContentToReturn ==
    LET f == wsFiles[call.path]
    IN  IF call.hasPage /\ IsPdfPath(call.path) THEN f.pages[call.page + 1]
        ELSE IF Contains(docs, call.path) THEN RowBody(docs, call.path)
        ELSE FileText(f)

\* r is the first n symbols of t followed by the marker
CutAt(r, t, n, marker) ==
    /\ Len(r) = n + Len(marker)
    /\ \A i \in 1..n : r[i] = t[i]
    /\ \A i \in 1..Len(marker) : r[n + i] = marker[i]

\* C19: when the content to return is longer than 8,000 characters Read
\* returns exactly its first 8,000 characters followed by the truncation
\* marker, and when it is 8,000 characters or shorter Read returns it
\* unchanged.
C19_ReadTruncation ==
    (call.op = "Read" /\ IsContent(result)) =>
        IF Len(ContentToReturn) > 8000
        THEN CutAt(result.content, ContentToReturn, 8000, ReadMarker)
        ELSE result.content = ContentToReturn

\* content of 8,001 characters came back cut
C19_Witness ==
    /\ call.op = "Read"
    /\ IsContent(result)
    /\ Len(ContentToReturn) = 8001
    /\ Len(result.content) = 8000 + Len(ReadMarker)

\* C20: when a document's extracted text is longer than 15,000 characters
\* the text sent for synthesis is its first 15,000 characters followed by a
\* truncation marker, and shorter text is sent whole, in both variants.
C20_SynthesisCap ==
    call.op = "Synthesize" =>
        LET t == FileText(wsFiles[call.path])
        IN  IF Len(t) > 15000
            THEN CutAt(result.content, t, 15000, SynthMarker)
            ELSE result.content = t

----------------------------------------------------------------------------
(* Synthesis output: stripping the code fence and parsing the card.  Text   *)
(* is a sequence of characters; "tick" stands for the backtick, "q" for the *)
(* double quote and "k" for any character of a key or value.                *)

TICK == "tick"
SP == " "
QUOTE == "q"

Fence == <<TICK, TICK, TICK>>

IsSpace(ch) == ch = NL \/ ch = SP

\* str.lstrip()
RECURSIVE LStrip(_)
LStrip(t) ==
    IF t # <<>> /\ IsSpace(Head(t)) THEN LStrip(Tail(t)) ELSE t

\* str.rstrip()
RECURSIVE RStrip(_)
RStrip(t) ==
    IF t # <<>> /\ IsSpace(t[Len(t)]) THEN RStrip(SubSeq(t, 1, Len(t) - 1)) ELSE t

\* str.strip()
Strip(t) == RStrip(LStrip(t))

\* str.startswith
StartsWith(t, pre) == Len(t) >= Len(pre) /\ SubSeq(t, 1, Len(pre)) = pre

\* the first position at which sub occurs in t, 0 when it does not
Find(t, sub) ==
    LET at == { k \in 1..(Len(t) - Len(sub) + 1) : SubSeq(t, k, k + Len(sub) - 1) = sub }
    IN  IF at = {} THEN 0 ELSE CHOOSE k \in at : \A j \in at : k <= j

\* the third part of text.partition("\n"): empty when there is no newline
AfterFirstNewline(t) ==
    LET k == Find(t, <<NL>>)
    IN  IF k = 0 THEN <<>> ELSE SubSeq(t, k + 1, Len(t))

\* text.rstrip of backticks
RECURSIVE RStripTicks(_)
RStripTicks(t) ==
    IF t # <<>> /\ t[Len(t)] = TICK THEN RStripTicks(SubSeq(t, 1, Len(t) - 1)) ELSE t

\* text.split(fence, 2)[1] for a text that starts with the fence: what
\* stands between the opening fence and the next one, or the end
BetweenFences(t) ==
    LET rest == SubSeq(t, Len(Fence) + 1, Len(t))
        k == Find(rest, Fence)
    IN  IF k = 0 THEN rest ELSE SubSeq(rest, 1, k - 1)

JsonTag == <<"j", "s", "o", "n">>

\* sal/core.py _index_one lines 45-48
StripFencePkg(out) ==
    LET text == Strip(out)
    IN  IF StartsWith(text, Fence)
        THEN Strip(RStripTicks(AfterFirstNewline(text)))
        ELSE text

\* sal.py _index_one lines 189-194
StripFenceScript(out) ==
    LET text == Strip(out)
    IN  IF StartsWith(text, Fence)
        THEN LET inner == BetweenFences(text)
             IN  Strip(IF StartsWith(inner, JsonTag)
                       THEN SubSeq(inner, Len(JsonTag) + 1, Len(inner))
                       ELSE inner)
        ELSE text

StripFence(v, out) == IF v = "pkg" THEN StripFencePkg(out) ELSE StripFenceScript(out)

DecodeError == [raised |-> "JSONDecodeError"]

\* the scan of json.loads over one object: mode is "open" before the brace,
\* "in" inside the object, "str" inside a string, "done" after the closing
\* brace; acc collects the value, blanks between tokens dropped
RECURSIVE JsonScan(_, _, _)
JsonScan(t, mode, acc) ==
    IF t = <<>> THEN (IF mode = "done" THEN [card |-> acc] ELSE DecodeError)
    ELSE LET ch == Head(t)
             rest == Tail(t)
         IN  CASE mode = "open" ->
                    IF IsSpace(ch) THEN JsonScan(rest, "open", acc)
                    ELSE IF ch = "{" THEN JsonScan(rest, "in", <<ch>>)
                    ELSE DecodeError
               [] mode = "in" ->
                    IF IsSpace(ch) THEN JsonScan(rest, "in", acc)
                    ELSE IF ch = "}" THEN JsonScan(rest, "done", Append(acc, ch))
                    ELSE IF ch = QUOTE THEN JsonScan(rest, "str", Append(acc, ch))
                    ELSE IF ch = "k" THEN JsonScan(rest, "in", Append(acc, ch))
                    ELSE DecodeError
               [] mode = "str" ->
                    IF ch = NL THEN DecodeError
                    ELSE IF ch = QUOTE THEN JsonScan(rest, "in", Append(acc, ch))
                    ELSE JsonScan(rest, "str", Append(acc, ch))
               [] OTHER ->
                    IF IsSpace(ch) THEN JsonScan(rest, "done", acc) ELSE DecodeError

\* json.loads
JsonLoads(t) == JsonScan(t, "open", <<>>)

\* _index_one from the synthesis output to the card
ParseCard(v, out) == JsonLoads(StripFence(v, out))

\* card texts: one line, two lines, a string holding a fence
CardTexts ==
    { <<"{", "k", "}">>,
      <<"{", "k", NL, "k", "}">>,
      <<"{", QUOTE, "k", SP, "k", QUOTE, "}">>,
      <<"{", QUOTE, TICK, TICK, TICK, QUOTE, "}">> }

Tags == { <<>>, JsonTag, <<"p", "y">> }

Newline(b) == IF b THEN <<NL>> ELSE <<>>

\* J inside fences: tag and newline after the opening fence as chosen
Wrapped(J, tag, nlOpen, nlClose) ==
    Fence \o tag \o Newline(nlOpen) \o J \o Newline(nlClose) \o Fence

Outputs(J) ==
    {J} \cup { Wrapped(J, tag, a, b) : tag \in Tags, a \in BOOLEAN, b \in BOOLEAN }

\* nothing is served and nothing indexed
WorkspaceIdle ==
    /\ IndexingIdle
    /\ ChatIdle
    /\ conns = 0
    /\ docs = <<>>
    /\ wsFiles = <<>>
    /\ store = "nodir"
    /\ CARDS = <<>>

InitFence ==
    /\ WorkspaceIdle
    /\ variant \in Variants
    /\ \E J \in CardTexts : \E out \in Outputs(J) :
          call = [op |-> "output", json |-> J, text |-> out]
    /\ result = NoCall

\* _index_one receives the synthesis output and parses it
ParseOutput ==
    /\ call.op = "output"
    /\ result = NoCall
    /\ result' = ParseCard(variant, call.text)
    /\ UNCHANGED <<ivars, cvars, wsFiles, store, CARDS, call, conns>>

NextFence == ParseOutput

SpecFence == InitFence /\ [][NextFence]_vars

\* C21: synthesis output that is a JSON card text J wrapped in triple-backtick
\* fences, with or without a language tag and with or without a newline after
\* the opening fence, is parsed to the same card as J alone, in both variants.
C21_FenceTolerance ==
    (call.op = "output" /\ result # NoCall) => result = JsonLoads(call.json)

----------------------------------------------------------------------------
(* The notes area and run_tool of the standalone variant.  The workspace    *)
(* has no resources directory; notes are files under notes/.                *)

NoteNames == {"a.md", "b.md", "c.txt"}

\* notes_dir / path, relative to the workspace
NotePath(n) ==
    CASE n = "a.md" -> "notes/a.md" [] n = "b.md" -> "notes/b.md"
      [] OTHER -> "notes/c.txt"

NotePaths == { NotePath(n) : n \in NoteNames }

NoteContents == { <<"x">>, <<"y", NL, "x">> }

\* sal.py write_note: the files afterwards
WriteNoteFiles(fl, n, content) == [fl EXCEPT ![NotePath(n)] = TextFile(content)]

\* sal.py write_note: the result
WriteNoteResult(n) == [success |-> TRUE, path |-> NotePath(n)]

\* sal.py read_note
ReadNote(fl, n) ==
    IF fl[NotePath(n)].kind = "absent"
    THEN [error |-> "Note not found", path |-> n]
    ELSE [content |-> fl[NotePath(n)].text]

\* the *.md names in sorted order
MdNames == <<"a.md", "b.md">>

\* sal.py list_notes: sorted(notes_dir.glob("*.md"))
ListNotes(fl) ==
    LET Present(n) == fl[NotePath(n)].kind # "absent"
    IN  [notes |-> SelectSeq(MdNames, Present)]

\* the orders in which rglob may enumerate the notes, per extension: the
\* .md notes in either order, then the .txt note
NoteScanOrders ==
    { <<"notes/a.md", "notes/b.md", "notes/c.txt">>,
      <<"notes/b.md", "notes/a.md", "notes/c.txt">> }

\* sal.py search over resources/ and then notes/
SearchScriptNotes(fl, q, max, noteOrder) ==
    [query |-> q, results |-> ScanFiles(fl, ScanOrder \o noteOrder, q, max, <<>>)]

\* the keys of DISPATCH
Registered ==
    {"list_documents", "read_document", "search", "write_note", "read_note",
     "list_notes"}

NoTool == "None"

\* a lookup that falls back on a registered tool
DispatchGetDefault(name) == IF name \in Registered THEN name ELSE "list_notes"

\* DISPATCH.get(name)
DispatchGet(name) == IF name \in Registered THEN name ELSE NoTool

UnknownTool(name) == [error |-> <<"Unknown tool: ", name>>]

\* the calls made of run_tool
ToolNames == Registered \cup {"delete_note", ""}

ToolInputs(name) ==
    CASE name = "write_note" ->
            { [path |-> n, content |-> c] : n \in NoteNames, c \in NoteContents }
      [] name = "read_note" -> { [path |-> n] : n \in NoteNames }
      [] name = "read_document" ->
            { [path |-> pth, hasPage |-> FALSE, page |-> 0] :
                 pth \in NotePaths \cup {"doc.txt"} }
      [] name = "search" ->
            { [query |-> WordsQuery(<<"x">>), max_results |-> m] : m \in 1..2 }
      [] name = "delete_note" -> { [path |-> n] : n \in NoteNames }
      [] OTHER -> { [none |-> TRUE] }

InitNotes ==
    /\ IndexingIdle
    /\ ChatIdle
    /\ conns = 0
    /\ variant = "script"
    /\ docs = <<>>
    /\ store = "nodir"
    /\ CARDS = <<>>
    /\ wsFiles = [pth \in ToolPaths \cup NotePaths |-> Absent]
    /\ call = NoCall
    /\ result = NoCall

\* fn(**inputs): a keyword the function lacks, or a missing one, raises
BadArgs(fn, inputs) ==
    CASE fn = "write_note" -> DOMAIN inputs # {"path", "content"}
      [] fn = "read_note" -> DOMAIN inputs # {"path"}
      [] OTHER -> FALSE

\* sal.py run_tool(name, inputs) over the files fl: the lookup and the call
\* of the tool; every [result, files] it can end with
ToolOutcomes(fl, name, inputs) ==
    LET fn == DispatchGet(name)
    IN  CASE fn = NoTool -> { [result |-> UnknownTool(name), files |-> fl] }
          [] BadArgs(fn, inputs) -> { [result |-> Raised("TypeError"), files |-> fl] }
          [] fn = "write_note" ->
                { [result |-> WriteNoteResult(inputs.path),
                   files |-> WriteNoteFiles(fl, inputs.path, inputs.content)] }
          [] fn = "read_note" -> { [result |-> ReadNote(fl, inputs.path), files |-> fl] }
          [] fn = "list_notes" -> { [result |-> ListNotes(fl), files |-> fl] }
          [] fn = "list_documents" -> { [result |-> ListScript(fl), files |-> fl] }
          [] fn = "read_document" ->
                { [result |-> ReadScript(fl, inputs.path, inputs.hasPage, inputs.page),
                   files |-> fl] }
          [] OTHER ->
                { [result |-> SearchScriptNotes(fl, inputs.query, inputs.max_results, ord),
                   files |-> fl] : ord \in NoteScanOrders }

\* one call of run_tool
RunTool(name, inputs) ==
    /\ call' = [op |-> "run_tool", name |-> name, inputs |-> inputs]
    /\ \E o \in ToolOutcomes(wsFiles, name, inputs) :
          /\ result' = o.result
          /\ wsFiles' = o.files
    /\ UNCHANGED <<ivars, cvars, store, CARDS, conns>>

NextNotes == \E name \in ToolNames : \E inputs \in ToolInputs(name) : RunTool(name, inputs)

SpecNotes == InitNotes /\ [][NextNotes]_vars

\* C22: run_tool with a name that is not registered returns
\* {error: "Unknown tool: <name>"}, calls no tool and leaves every file, row
\* and card as it was.
C22_UnknownTool ==
    [][ (call'.op = "run_tool" /\ call'.name \notin Registered) =>
           /\ result' = [error |-> <<"Unknown tool: ", call'.name>>]
           /\ wsFiles' = wsFiles
           /\ docs' = docs
           /\ cardFile' = cardFile
           /\ CARDS' = CARDS
      ]_vars

\* an unknown name was dispatched in a workspace that holds notes
C22_Witness ==
    /\ call.op = "run_tool"
    /\ call.name = "delete_note"
    /\ result = UnknownTool("delete_note")
    /\ wsFiles[NotePath(call.inputs.path)].kind # "absent"

\* every note written so far, in alphabetical order
WrittenNotes ==
    LET Written(n) == wsFiles[NotePath(n)].kind # "absent"
    IN  SelectSeq(<<"a.md", "b.md", "c.txt">>, Written)

NoteCall(name) == call.op = "run_tool" /\ call.name = name

\* C24: read_note(p) returns the content of the most recent write_note(p, .)
\* for every written p and an {error} result for every p never written, and
\* list_notes returns the names of all written notes in alphabetical order.
C24_NotesArea ==
    /\ NoteCall("read_note") =>
          result = IF wsFiles[NotePath(call.inputs.path)].kind = "absent"
                   THEN [error |-> "Note not found", path |-> call.inputs.path]
                   ELSE [content |-> wsFiles[NotePath(call.inputs.path)].text]
    /\ NoteCall("list_notes") => result.notes = WrittenNotes

\* a write puts its content under its name and touches no other note, and
\* no other call changes a note
NotesOverwrite ==
    [][ IF call'.op = "run_tool" /\ call'.name = "write_note"
        THEN wsFiles' = [wsFiles EXCEPT ![NotePath(call'.inputs.path)] =
                                           TextFile(call'.inputs.content)]
        ELSE wsFiles' = wsFiles
      ]_vars

\* the listing is right for the notes whose name ends in .md
MdNotesListed ==
    NoteCall("list_notes") =>
        LET IsMd(n) == n # "c.txt" IN result.notes = SelectSeq(WrittenNotes, IsMd)

----------------------------------------------------------------------------
(* The locator of the package variant over one directory listing *)

\* sal/core.py EXTS
EXTS == <<".pdf", ".md", ".txt", ".html", ".org">>

\* the entries a workspace root may hold: four files and a directory
Entries == {"a.md", "b.md", "c.pdf", "d.xyz", "sub"}

\* Path.suffix
Suffix(n) ==
    CASE n = "a.md" -> ".md" [] n = "b.md" -> ".md" [] n = "c.pdf" -> ".pdf"
      [] n = "d.xyz" -> ".xyz" [] OTHER -> ""

\* the order of the names as Python compares strings
NameOrd(n) ==
    CASE n = "a.md" -> 1 [] n = "b.md" -> 2 [] n = "c.pdf" -> 3
      [] n = "d.xyz" -> 4 [] OTHER -> 5

\* WS.glob("*<ext>"): the entries with that suffix, in the order the
\* filesystem lists them
Glob(listing, ext) ==
    LET Hit(n) == Suffix(n) = ext IN SelectSeq(listing, Hit)

\* for ext in EXTS for f in WS.glob(...)
RECURSIVE GlobAll(_, _)
GlobAll(listing, exts) ==
    IF exts = <<>> THEN <<>>
    ELSE Glob(listing, Head(exts)) \o GlobAll(listing, Tail(exts))

\* x put into the sorted sequence sq at its place
RECURSIVE InsertSorted(_, _)
InsertSorted(sq, x) ==
    IF sq = <<>> THEN <<x>>
    ELSE IF NameOrd(x) < NameOrd(Head(sq)) THEN <<x>> \o sq
    ELSE <<Head(sq)>> \o InsertSorted(Tail(sq), x)

RECURSIVE SortFrom(_, _)
SortFrom(sq, acc) ==
    IF sq = <<>> THEN acc ELSE SortFrom(Tail(sq), InsertSorted(acc, Head(sq)))

\* the generator returned as it comes
Unsorted(sq) == sq

\* sorted(...)
Sorted(sq) == SortFrom(sq, <<>>)

\* sal/core.py _resources
Resources(rootExists, listing) ==
    IF rootExists THEN Sorted(GlobAll(listing, EXTS)) ELSE <<>>

\* the orders in which the filesystem may list the entries S
Listings(S) ==
    { f \in [1..Cardinality(S) -> S] : \A i, j \in 1..Cardinality(S) : f[i] = f[j] => i = j }

InitLocate ==
    /\ WorkspaceIdle
    /\ variant = "pkg"
    /\ \/ call = [op |-> "root", exists |-> FALSE, listing |-> <<>>]
       \/ \E S \in SUBSET Entries : \E l \in Listings(S) :
             call = [op |-> "root", exists |-> TRUE, listing |-> l]
    /\ result = NoCall

\* _resources is called on the workspace root
Locate ==
    /\ call.op = "root"
    /\ result = NoCall
    /\ result' = [located |-> Resources(call.exists, call.listing)]
    /\ UNCHANGED <<ivars, cvars, wsFiles, store, CARDS, call, conns>>

NextLocate == Locate

SpecLocate == InitLocate /\ [][NextLocate]_vars

LocateDone == call.op = "root" /\ result # NoCall

----------------------------------------------------------------------------
(* Connections *)

\* C29: every connection a tool call opens is closed before the call
\* returns, on every path, so that after any sequence of tool calls none of
\* them is still open.
C29_HandlesReleased == conns = 0

\* the calls that close what they open: Read on every path, Search on a
\* query the backend accepts
ClosedWhereClosed ==
    [][ ~(call'.op = "Search" /\ variant = "pkg" /\ call'.query.kind = "bad")
            => conns' = conns ]_vars

----------------------------------------------------------------------------
(* MathRenderer.  Text is a sequence of characters; what _convert makes of *)
(* a math span is the span between the marks "[" and "]".                   *)

MaxText == 5

DOLLAR == "$"

Alphabet == {DOLLAR, "a", "b"}

\* no "$" is carried over the end of a chunk
CarryNone == <<>>

\* self._pending = "$"
Carry == <<DOLLAR>>

\* a character outside math held back
EmitPlainNone(out, ch) == out

\* out.append(ch)
EmitPlain(out, ch) == Append(out, ch)

\* MathRenderer._convert
Convert(latex, display) ==
    LET text == <<"[">> \o latex \o <<"]">>
    IN  IF display THEN <<NL, NL, SP, SP>> \o text \o <<NL, NL>> ELSE text

\* MathRenderer.feed, the while loop from position i (1-based) on
RECURSIVE FeedLoop(_, _, _, _)
FeedLoop(r, text, i, out) ==
    IF i > Len(text) THEN [r |-> r, out |-> out]
    ELSE LET ch == text[i]
             atEnd == i + 1 > Len(text)
         IN  IF ~r.in_math
             THEN IF ch = DOLLAR
                  THEN IF atEnd
                       THEN [r |-> [r EXCEPT !.pending = Carry], out |-> out]
                       ELSE IF text[i + 1] = DOLLAR
                       THEN FeedLoop([r EXCEPT !.in_math = TRUE, !.display = TRUE,
                                               !.math = <<>>], text, i + 2, out)
                       ELSE FeedLoop([r EXCEPT !.in_math = TRUE, !.display = FALSE,
                                               !.math = <<>>], text, i + 1, out)
                  ELSE FeedLoop(r, text, i + 1, EmitPlain(out, ch))
             ELSE IF ch = DOLLAR
                  THEN IF r.display
                       THEN IF atEnd
                            THEN [r |-> [r EXCEPT !.pending = Carry], out |-> out]
                            ELSE IF text[i + 1] = DOLLAR
                            THEN FeedLoop([r EXCEPT !.in_math = FALSE], text, i + 2,
                                          out \o Convert(r.math, TRUE))
                            ELSE FeedLoop([r EXCEPT !.math = Append(@, ch)],
                                          text, i + 1, out)
                       ELSE FeedLoop([r EXCEPT !.in_math = FALSE], text, i + 1,
                                     out \o Convert(r.math, FALSE))
                  ELSE FeedLoop([r EXCEPT !.math = Append(@, ch)], text, i + 1, out)

\* MathRenderer.feed: [r |-> the renderer afterwards, out |-> what it returns]
Feed(r, chunk) == FeedLoop([r EXCEPT !.pending = <<>>], r.pending \o chunk, 1, <<>>)

\* MathRenderer.flush: what it returns
FlushOut(r) ==
    IF r.in_math
    THEN LET delim == IF r.display THEN <<DOLLAR, DOLLAR>> ELSE <<DOLLAR>>
         IN  delim \o r.math \o r.pending \o delim
    ELSE r.pending

\* the chunks a stream may deliver
Chunks == UNION { [1..n -> Alphabet] : n \in 0..MaxText }

InitMath ==
    /\ IndexingIdle
    /\ variant = "script"
    /\ docs = <<>>
    /\ wsFiles = <<>>
    /\ store = "nodir"
    /\ CARDS = <<>>
    /\ conns = 0
    /\ renderer = NewRenderer
    /\ messages = <<>>
    /\ pc = "stream"
    /\ call = [op |-> "new", fed |-> <<>>]
    /\ result = [out |-> <<>>, printed |-> <<>>, flushes |-> 0]

\* a text_delta event: print(renderer.feed(event.delta.text)); call keeps
\* the text fed so far and the renderer as it was before, result what has
\* been printed
FeedChunk(chunk) ==
    /\ result.flushes = 0
    /\ Len(call.fed) + Len(chunk) <= MaxText
    /\ LET f == Feed(renderer, chunk)
       IN  /\ renderer' = f.r
           /\ call' = [op |-> "feed", chunk |-> chunk, fed |-> call.fed \o chunk,
                       before |-> renderer]
           /\ result' = [out |-> f.out, printed |-> result.printed \o f.out,
                         flushes |-> 0]
    /\ UNCHANGED <<ivars, wsFiles, store, CARDS, conns, messages, pc>>

\* the end of the stream: print(renderer.flush()), and a flush once more
Flush ==
    /\ result.flushes < 2
    /\ renderer' = NewRenderer
    /\ call' = [op |-> "flush", fed |-> call.fed, before |-> renderer]
    /\ result' = [out |-> FlushOut(renderer),
                  printed |-> result.printed \o FlushOut(renderer),
                  flushes |-> result.flushes + 1]
    /\ UNCHANGED <<ivars, wsFiles, store, CARDS, conns, messages, pc>>

NextMath ==
    \/ \E chunk \in Chunks : FeedChunk(chunk)
    \/ Flush

SpecMath == InitMath /\ [][NextMath]_vars

\* C25: for every text and every way of splitting it into chunks, empty
\* chunks and a split inside "$$" included, what feed returns over the chunks
\* followed by what flush returns equals what one feed of the whole text
\* followed by flush returns.
C25_ChunkIndependence ==
    (call.op = "flush" /\ result.flushes = 1) =>
        LET whole == Feed(NewRenderer, call.fed)
        IN  result.printed = whole.out \o FlushOut(whole.r)

\* a display span arrived with both its delimiters split over chunks
C25_Witness ==
    /\ call.op = "flush"
    /\ result.flushes = 1
    /\ call.fed = <<DOLLAR, DOLLAR, "a", DOLLAR, DOLLAR>>
    /\ result.printed = Convert(<<"a">>, TRUE)

PendingState(r) == r.in_math \/ r.pending # <<>>

\* t is the end of s
IsTail(t, s) == Len(t) <= Len(s) /\ SubSeq(s, Len(s) - Len(t) + 1, Len(s)) = t

\* C26: when the stream ends with pending partial state, flush emits exactly
\* the input characters from the opening delimiter (or the carried "$")
\* onward, none dropped and none added; after flush the renderer is in its
\* initial state and a second flush returns the empty string.
C26_FlushLiteral ==
    /\ (call.op = "flush" /\ result.flushes = 1 /\ PendingState(call.before)) =>
          /\ IsTail(result.out, call.fed)
          /\ result.out # <<>>
          /\ ~PendingState(Feed(NewRenderer,
                                SubSeq(call.fed, 1, Len(call.fed) - Len(result.out))).r)
          /\ renderer = NewRenderer
    /\ (call.op = "flush" /\ result.flushes = 2) => result.out = <<>>

\* what holds of flush: nothing buffered is dropped, the renderer is reset,
\* and a second flush returns nothing
FlushKeepsBuffered ==
    /\ (call.op = "flush" /\ result.flushes = 1) =>
          /\ renderer = NewRenderer
          /\ ~call.before.in_math => result.out = call.before.pending
          /\ call.before.in_math =>
                \E k \in 1..2 :
                   /\ IsTail(SubSeq(result.out, 1, Len(result.out) - k), call.fed)
                   /\ Len(result.out) > k
    /\ (call.op = "flush" /\ result.flushes = 2) => result.out = <<>>

\* the chunk up to its first "$"
PlainPrefix(chunk) ==
    LET k == Find(chunk, <<DOLLAR>>)
    IN  IF k = 0 THEN chunk ELSE SubSeq(chunk, 1, k - 1)

\* the chunk after its last "$"
PlainSuffix(chunk) ==
    LET at == { k \in 1..Len(chunk) : chunk[k] = DOLLAR }
    IN  IF at = {} THEN chunk
        ELSE SubSeq(chunk, (CHOOSE k \in at : \A j \in at : j <= k) + 1, Len(chunk))

\* C27: after every feed _pending is empty or the single character "$", and
\* the characters other than "$" fed while the renderer is outside math are
\* returned by that same feed call.
C27_Lookahead ==
    /\ renderer.pending \in {<<>>, <<DOLLAR>>}
    /\ (call.op = "feed" /\ ~PendingState(call.before)) =>
          StartsWith(result.out, PlainPrefix(call.chunk))
    /\ (call.op = "feed" /\ ~renderer.in_math) =>
          IsTail(PlainSuffix(call.chunk), result.out)

\* prose came out at once while a "$" at the end of the chunk is carried
C27_Witness ==
    /\ call.op = "feed"
    /\ ~PendingState(call.before)
    /\ call.chunk = <<"a", "b", DOLLAR>>
    /\ result.out = <<"a", "b">>
    /\ renderer.pending = <<DOLLAR>>

----------------------------------------------------------------------------
(* The conversation loop of main.  The content of a message is a sequence *)
(* of blocks; the text a learner types is the one text block the API      *)
(* reads a string content as.                                              *)

MaxMessages == 4
MaxBlocks == 2

EOF == "EOF"

\* what _prompt returns or raises: a line, nothing, a word that leaves, the
\* end of input
UserInputs == {"hi", "", "quit", EOF}

Leaves(input) == input \in {"quit", "exit", "q"}

\* the tool calls a response may ask for; the last lacks an argument
ToolRequests ==
    { [name |-> "write_note", input |-> [path |-> "a.md", content |-> <<"x">>]],
      [name |-> "read_note", input |-> [path |-> "a.md"]],
      [name |-> "write_note", input |-> [path |-> "a.md"]] }

\* a block of text
Text == [text |-> TRUE]

\* the blocks of the n-th message of the history as the API may send them:
\* every tool_use block has an id of its own
Block(n, k, b) ==
    IF b = Text THEN [type |-> "text"]
    ELSE [type |-> "tool_use", id |-> <<n, k>>, name |-> b.name, input |-> b.input]

Contents(n) ==
    UNION { { [k \in 1..len |-> Block(n, k, f[k])] :
                 f \in [1..len -> {Text} \cup ToolRequests] } : len \in 0..MaxBlocks }

\* tool_uses = [b for b in response.content if b.type == "tool_use"]
ToolUses(content) ==
    LET IsUse(b) == b.type = "tool_use" IN SelectSeq(content, IsUse)

StopReasons == {"end_turn", "tool_use", "max_tokens"}

\* stream.get_final_message(): main reads the content and the stop_reason
\* of a response apart from each other, and every pair of them is a response
Responses(n) == [content : Contents(n), stop_reason : StopReasons]

\* the loop over tool_uses: the tool_results and the files it ends with, or
\* raised when a run_tool raises
RECURSIVE RunTools(_, _)
RunTools(fl, tool_uses) ==
    IF tool_uses = <<>> THEN { [raised |-> FALSE, results |-> <<>>, files |-> fl] }
    ELSE LET tu == Head(tool_uses)
         IN  UNION {
               IF IsRaise(o.result)
               THEN { [raised |-> TRUE, results |-> <<>>, files |-> o.files] }
               ELSE { [raised |-> rest.raised,
                       results |-> <<[type |-> "tool_result", tool_use_id |-> tu.id,
                                      content |-> o.result]>> \o rest.results,
                       files |-> rest.files] :
                         rest \in RunTools(o.files, Tail(tool_uses)) } :
               o \in ToolOutcomes(fl, tu.name, tu.input) }

InitChat ==
    /\ IndexingIdle
    /\ variant = "script"
    /\ docs = <<>>
    /\ store = "nodir"
    /\ CARDS = <<>>
    /\ conns = 0
    /\ wsFiles = [pth \in ToolPaths \cup NotePaths |-> Absent]
    /\ call = NoCall
    /\ result = [stops |-> <<>>]
    /\ renderer = NewRenderer
    /\ messages = <<>>
    /\ pc = "prompt"

\* the head of the outer loop: read a line, leave, go round or append it
Prompt(input) ==
    /\ pc = "prompt"
    /\ call' = [op |-> "prompt", input |-> input]
    /\ IF input = EOF \/ (input # "" /\ Leaves(input))
       THEN messages' = messages /\ pc' = "done"
       ELSE IF input = ""
       THEN messages' = messages /\ pc' = "prompt"
       ELSE /\ Len(messages) < MaxMessages
            /\ messages' = Append(messages,
                                  [role |-> "user",
                                   content |-> <<[type |-> "text", text |-> input]>>])
            /\ pc' = "request"
    /\ UNCHANGED <<ivars, wsFiles, store, CARDS, result, conns, renderer>>

\* one round of the inner loop: the request is sent with the history, the
\* response is appended and either ends the turn or has its tools run and
\* their results appended; result keeps the stop_reason of every response
Respond(resp) ==
    /\ pc = "request"
    /\ LET tool_uses == ToolUses(resp.content)
           answered == Append(messages, [role |-> "assistant", content |-> resp.content])
       IN  IF resp.stop_reason = "end_turn" \/ tool_uses = <<>>
           THEN /\ Len(messages) < MaxMessages
                /\ messages' = answered
                /\ pc' = "prompt"
                /\ wsFiles' = wsFiles
           ELSE /\ Len(messages) + 2 <= MaxMessages
                /\ \E run \in RunTools(wsFiles, tool_uses) :
                      /\ wsFiles' = run.files
                      /\ IF run.raised
                         THEN messages' = answered /\ pc' = "done"
                         ELSE /\ messages' = Append(answered,
                                     [role |-> "user", content |-> run.results])
                              /\ pc' = "request"
    /\ call' = [op |-> "request", stop_reason |-> resp.stop_reason]
    /\ result' = [stops |-> Append(result.stops, resp.stop_reason)]
    /\ UNCHANGED <<ivars, store, CARDS, conns, renderer>>

\* the stream raises, or the learner interrupts it: main is left
Interrupt ==
    /\ pc = "request"
    /\ pc' = "done"
    /\ call' = [op |-> "interrupt"]
    /\ UNCHANGED <<ivars, wsFiles, store, CARDS, result, conns, renderer, messages>>

NextChat ==
    \/ \E input \in UserInputs : Prompt(input)
    \/ \E resp \in Responses(Len(messages) + 1) : Respond(resp)
    \/ Interrupt

SpecChat == InitChat /\ [][NextChat]_vars

\* the tool_use blocks of the i-th message
UsesAt(i) ==
    LET IsUse(b) == b.type = "tool_use" IN SelectSeq(messages[i].content, IsUse)

\* the message after the i-th holds one tool_result for each tool_use block
\* of the i-th, in their order and with their ids
Answered(i) ==
    LET reply == messages[i + 1].content
    IN  /\ Len(reply) = Len(UsesAt(i))
        /\ \A k \in 1..Len(reply) :
              /\ reply[k].type = "tool_result"
              /\ reply[k].tool_use_id = UsesAt(i)[k].id

ProtocolUnlessEndTurn ==
    /\ \A i \in 1..Len(messages) :
          messages[i].role = IF i % 2 = 1 THEN "user" ELSE "assistant"
    /\ \A i \in 1..(Len(messages) - 1) :
          (messages[i].role = "assistant" /\ UsesAt(i) # <<>>) =>
              (Answered(i) \/ result.stops[i \div 2] = "end_turn")

====
